---- MODULE Spec2Model ----
(***************************************************************************)
(* Real-time graph synchronisation of netviz: the client reconciliation    *)
(* engine (frontend/src/hooks/useRealtimeGraph.ts) and the connection      *)
(* manager it owns (class WebSocketManager of services/api).               *)
(***************************************************************************)
EXTENDS Naturals, Integers, Sequences, FiniteSets, TLC

VARIABLES
  state,         \* the hook's React state (RealtimeGraphState)
  lastMsg,       \* history: the update most recently given to handleGraphUpdate
  prevSize,      \* history: lengths of nodes and edges before that update, and
                 \* the stamp of the 'updated' delta it followed for the same edge
  wsManagerRef,  \* wsManagerRef.current: 0 for null, else a manager index
  mgr,           \* the WebSocketManager objects ever constructed
  rendered,      \* the values captured by the closures of the last render
  sessionId,     \* the sessionId argument of the hook
  mounted,       \* "no" before mount, "yes" while mounted, "gone" after unmount
  interval,      \* the 5-second resync interval is armed
  store,         \* the server's authoritative graph
  commits,       \* history: number of commits the store has made
  adapter,       \* the call of a dataAdapter function: its name, argument, result
  s2c,           \* per manager: messages in flight to its transport
  c2s            \* control messages the client has sent to the server

vars == <<state, lastMsg, prevSize, wsManagerRef, mgr, rendered, sessionId, mounted,
          interval, store, commits, adapter, s2c, c2s>>

-----------------------------------------------------------------------------
(* Bounds and data universe *)

MaxNodes == 2          \* longest node list the mirror may grow to by 'created'
MaxEdges == 2          \* longest edge list the mirror may grow to by 'created'

NULL == "null"
NodeIds == {"n1", "n2"}
EdgeIds == {"e1", "e2"}
Times == {"t1", "t2"}

\* BackendNetworkNode: the reducer reads only id; last_updated stands for the
\* payload (name, status, metadata, ...) that travels with it.
NodeData == [id : NodeIds, last_updated : Times]
\* BackendNetworkEdge: e1 joins n1 to n2, e2 is a link of n2 alone
EdgeSource(id) == IF id = "e1" THEN "n1" ELSE "n2"
EdgeData ==
  {[id |-> id, source |-> EdgeSource(id), target |-> "n2", last_updated |-> t] :
     id \in EdgeIds, t \in Times}

SeqsUpTo(S, n) == UNION {[1..k -> S] : k \in 0..n}
Range(s) == {s[i] : i \in 1..Len(s)}
UniqueIds(s) == \A i, j \in 1..Len(s) : s[i].id = s[j].id => i = j
Ids(s) == {s[i].id : i \in 1..Len(s)}

Touches(e, n) == e.source = n \/ e.target = n

\* A graph the store can hold: unique ids, every edge end is a stored node.
WellFormed(nodes, edges) ==
  /\ UniqueIds(nodes)
  /\ UniqueIds(edges)
  /\ \A i \in 1..Len(edges) :
       edges[i].source \in Ids(nodes) /\ edges[i].target \in Ids(nodes)

\* the store lists its nodes in id order
Sorted(nodes) == \A i, j \in 1..Len(nodes) : (nodes[i].id = "n2" /\ nodes[j].id = "n1") => j < i

\* the snapshots used as test messages: one commit time throughout
Snapshots ==
  {g \in [nodes : SeqsUpTo(NodeData, 2), edges : SeqsUpTo(EdgeData, 1)] :
     /\ WellFormed(g.nodes, g.edges)
     /\ Sorted(g.nodes)
     /\ \E t \in Times : \A d \in Range(g.nodes) \cup Range(g.edges) : d.last_updated = t}

\* the timestamp a snapshot of that commit time is sent with
SnapshotTimes(g) ==
  IF g.nodes = <<>> THEN Times ELSE {g.nodes[1].last_updated}

-----------------------------------------------------------------------------
(* GraphUpdate messages.  An optional field is the empty set when absent   *)
(* and a singleton when present.                                           *)

Msg(type, ut, et, ed, ns, es, ts) ==
  [type |-> type, update_type |-> ut, entity_type |-> et, entity_data |-> ed,
   nodes |-> ns, edges |-> es, timestamp |-> ts]

NoMsg == Msg("none", NULL, NULL, {}, {}, {}, NULL)

GraphStateMsg(g, ts) == Msg("graph_state", NULL, NULL, {}, {g.nodes}, {g.edges}, ts)
GraphUpdateMsg(ut, et, d, ts) == Msg("graph_update", ut, et, {d}, {}, {}, ts)
ControlMsg(type, ts) == Msg(type, NULL, NULL, {}, {}, {}, ts)

GraphStateMsgs ==
  UNION {{GraphStateMsg(g, ts) : ts \in SnapshotTimes(g)} : g \in Snapshots}
    \cup {Msg("graph_state", NULL, NULL, {}, {}, {}, "t1")}

UpdateTypes == {"created", "updated", "deleted"}

\* a delta is stamped with the commit time of its entity
GraphUpdateMsgs ==
  {GraphUpdateMsg(ut, "node", d, d.last_updated) : ut \in UpdateTypes, d \in NodeData}
    \cup {GraphUpdateMsg(ut, "edge", d, d.last_updated) : ut \in UpdateTypes, d \in EdgeData}

\* graph_update messages lacking one of the three required fields
MalformedUpdateMsgs ==
  {Msg("graph_update", NULL, "node", {[id |-> "n1", last_updated |-> "t1"]}, {}, {}, "t1"),
   Msg("graph_update", "created", NULL, {[id |-> "n1", last_updated |-> "t1"]}, {}, {}, "t1"),
   Msg("graph_update", "created", "node", {}, {}, {}, "t1")}

\* a frame whose text is not JSON; every other frame in flight is written
\* as the GraphUpdate its text parses to
Garbled == Msg("#garbled", NULL, NULL, {}, {}, {}, NULL)

\* JSON.parse(event.data) returns
Parses(frame) == frame # Garbled

\* graph_update messages with all three fields and an update_type or an
\* entity_type the reducer has no branch for
OddUpdateMsgs ==
  {Msg("graph_update", "moved", "node", {[id |-> "n1", last_updated |-> "t2"]}, {}, {}, "t2"),
   Msg("graph_update", "created", "link", {[id |-> "n1", last_updated |-> "t2"]}, {}, {}, "t2")}

ControlMsgs ==
  {ControlMsg(t, "t1") : t \in {"connection_established", "ping", "pong", "unknown"}}

Messages == GraphStateMsgs \cup GraphUpdateMsgs \cup MalformedUpdateMsgs \cup ControlMsgs

\* t1 is the earlier of the two times
Earlier(a, b) == a = "t1" /\ b = "t2"

-----------------------------------------------------------------------------
(* The reducer of handleGraphUpdate *)

\* x || []
OrEmpty(opt) == IF opt = {} THEN <<>> ELSE CHOOSE x \in opt : TRUE

TheData(update) == CHOOSE d \in update.entity_data : TRUE

IsDelta(m, ut, et) ==
  /\ m.type = "graph_update"
  /\ m.update_type = ut
  /\ m.entity_type = et
  /\ m.entity_data # {}

\* history: the last_updated of the 'updated' delta for the same edge that
\* was handled just before this 'updated' edge delta, if there was one
UpdatedBefore(last, update) ==
  IF /\ IsDelta(update, "updated", "edge")
     /\ IsDelta(last, "updated", "edge")
     /\ TheData(last).id = TheData(update).id
  THEN {TheData(last).last_updated}
  ELSE {}

Filter(s, Keep(_)) == SelectSeq(s, Keep)
Replace(s, d) == [i \in 1..Len(s) |-> IF s[i].id = d.id THEN d ELSE s[i]]

CreatedNode(prevState, nodeData) ==
  [prevState EXCEPT !.nodes = Append(prevState.nodes, nodeData)]

UpdatedNode(prevState, nodeData) ==
  [prevState EXCEPT !.nodes = Replace(prevState.nodes, nodeData)]

\* mutant: the cascade looks at the source end only
DeletedNode_SourceOnly(prevState, nodeData) ==
  LET keepNode(node) == node.id # nodeData.id
      keepEdge(edge) == edge.source # nodeData.id
  IN [prevState EXCEPT !.nodes = Filter(prevState.nodes, keepNode),
                       !.edges = Filter(prevState.edges, keepEdge)]

DeletedNode(prevState, nodeData) ==
  LET keepNode(node) == node.id # nodeData.id
      keepEdge(edge) == edge.source # nodeData.id /\ edge.target # nodeData.id
  IN [prevState EXCEPT !.nodes = Filter(prevState.nodes, keepNode),
                       !.edges = Filter(prevState.edges, keepEdge)]

CreatedEdge(prevState, edgeData) ==
  [prevState EXCEPT !.edges = Append(prevState.edges, edgeData)]

\* mutant: an update of an unknown edge inserts it
UpdatedEdge_Upsert(prevState, edgeData) ==
  IF edgeData.id \in Ids(prevState.edges)
  THEN [prevState EXCEPT !.edges = Replace(prevState.edges, edgeData)]
  ELSE [prevState EXCEPT !.edges = Append(prevState.edges, edgeData)]

\* mutant: a stored copy with a later last_updated is kept
UpdatedEdge_NewestWins(prevState, edgeData) ==
  [prevState EXCEPT !.edges =
     [i \in 1..Len(@) |->
        IF @[i].id = edgeData.id /\ ~Earlier(edgeData.last_updated, @[i].last_updated)
        THEN edgeData ELSE @[i]]]

UpdatedEdge(prevState, edgeData) ==
  [prevState EXCEPT !.edges = Replace(prevState.edges, edgeData)]

DeletedEdge(prevState, edgeData) ==
  LET keepEdge(edge) == edge.id # edgeData.id
  IN [prevState EXCEPT !.edges = Filter(prevState.edges, keepEdge)]

\* mutant: the snapshot is merged into the mirror instead of replacing it
ApplyGraphState_Merge(prevState, update) ==
  [prevState EXCEPT !.nodes = prevState.nodes \o OrEmpty(update.nodes),
                    !.edges = prevState.edges \o OrEmpty(update.edges),
                    !.lastUpdated = update.timestamp]

\* mutant: a snapshot also marks the engine connected
ApplyGraphState_Connected(prevState, update) ==
  [prevState EXCEPT !.nodes = OrEmpty(update.nodes),
                    !.edges = OrEmpty(update.edges),
                    !.lastUpdated = update.timestamp,
                    !.isConnected = TRUE,
                    !.connectionError = NULL]

ApplyGraphState(prevState, update) ==
  [prevState EXCEPT !.nodes = OrEmpty(update.nodes),
                    !.edges = OrEmpty(update.edges),
                    !.lastUpdated = update.timestamp]

\* mutant: a delta that changes neither list leaves lastUpdated alone
ApplyGraphUpdate_StampOnChange(prevState, update) ==
  IF update.update_type # NULL /\ update.entity_type # NULL /\ update.entity_data # {}
  THEN LET d == TheData(update)
           ut == update.update_type
           newState ==
             IF update.entity_type = "node"
             THEN CASE ut = "created" -> CreatedNode(prevState, d)
                    [] ut = "updated" -> UpdatedNode(prevState, d)
                    [] ut = "deleted" -> DeletedNode(prevState, d)
                    [] OTHER -> prevState
             ELSE IF update.entity_type = "edge"
             THEN CASE ut = "created" -> CreatedEdge(prevState, d)
                    [] ut = "updated" -> UpdatedEdge(prevState, d)
                    [] ut = "deleted" -> DeletedEdge(prevState, d)
                    [] OTHER -> prevState
             ELSE prevState
       IN IF newState = prevState THEN prevState
          ELSE [newState EXCEPT !.lastUpdated = update.timestamp]
  ELSE prevState

ApplyGraphUpdate(prevState, update) ==
  IF update.update_type # NULL /\ update.entity_type # NULL /\ update.entity_data # {}
  THEN LET d == TheData(update)
           ut == update.update_type
           newState ==
             IF update.entity_type = "node"
             THEN CASE ut = "created" -> CreatedNode(prevState, d)
                    [] ut = "updated" -> UpdatedNode(prevState, d)
                    [] ut = "deleted" -> DeletedNode(prevState, d)
                    [] OTHER -> prevState
             ELSE IF update.entity_type = "edge"
             THEN CASE ut = "created" -> CreatedEdge(prevState, d)
                    [] ut = "updated" -> UpdatedEdge(prevState, d)
                    [] ut = "deleted" -> DeletedEdge(prevState, d)
                    [] OTHER -> prevState
             ELSE prevState
       IN [newState EXCEPT !.lastUpdated = update.timestamp]
  ELSE prevState

\* mutant: a message of an unknown type still stamps lastUpdated
Reducer_StampUnknown(prevState, update) ==
  CASE update.type = "connection_established" ->
         [prevState EXCEPT !.isConnected = TRUE, !.isConnecting = FALSE,
                           !.connectionError = NULL]
    [] update.type = "graph_state" -> ApplyGraphState(prevState, update)
    [] update.type = "graph_update" -> ApplyGraphUpdate(prevState, update)
    [] update.type \in {"ping", "pong"} -> prevState
    [] OTHER -> [prevState EXCEPT !.lastUpdated = update.timestamp]

Reducer(prevState, update) ==
  CASE update.type = "connection_established" ->
         [prevState EXCEPT !.isConnected = TRUE, !.isConnecting = FALSE,
                           !.connectionError = NULL]
    [] update.type = "graph_state" -> ApplyGraphState(prevState, update)
    [] update.type = "graph_update" -> ApplyGraphUpdate(prevState, update)
    [] OTHER -> prevState

-----------------------------------------------------------------------------
(* JavaScript values, as utils/dataAdapter.ts sees them.  A string is the   *)
(* sequence of its characters, an array the sequence of its elements, an    *)
(* object the function from its own keys to their values.                   *)

Null == [t |-> "null"]
Undefined == [t |-> "undefined"]
Str(s) == [t |-> "string", s |-> s]
Num(n) == [t |-> "number", n |-> n]
Bool(b) == [t |-> "boolean", b |-> b]
Arr(a) == [t |-> "array", a |-> a]
Obj(o) == [t |-> "object", o |-> o]

EmptyObject == Obj(<<>>)

\* typeof value === 'object' && value !== null && !Array.isArray(value)
IsPlainObject(value) == value.t = "object"

\* Object.keys(value) of an object or an array
ObjectKeys(value) == IF value.t = "object" THEN DOMAIN value.o ELSE DOMAIN value.a

\* obj[key]
Get(obj, key) == IF key \in DOMAIN obj.o THEN obj.o[key] ELSE Undefined

\* a || b
Truthy(value) == value \notin {Null, Undefined, Str(<<>>), Num(0), Bool(FALSE)}
Or(a, b) == IF Truthy(a) THEN a ELSE b

\* String.prototype.trim removes white space and line terminators
WhiteSpace == {" ", "\t", "\n"}

RECURSIVE TrimStart(_)
TrimStart(s) == IF s # <<>> /\ Head(s) \in WhiteSpace THEN TrimStart(Tail(s)) ELSE s

RECURSIVE TrimEnd(_)
TrimEnd(s) ==
  IF s # <<>> /\ s[Len(s)] \in WhiteSpace THEN TrimEnd(SubSeq(s, 1, Len(s) - 1)) ELSE s

Trim(s) == TrimEnd(TrimStart(s))

-----------------------------------------------------------------------------
(* utils/dataAdapter.ts *)

\* mutant: every falsy value counts as empty
isEmpty_Falsy(value) ==
  \/ ~Truthy(value)
  \/ (value.t = "string" /\ Trim(value.s) = <<>>)
  \/ (value.t \in {"object", "array"} /\ ObjectKeys(value) = {})

isEmpty(value) ==
  \/ value = Null \/ value = Undefined \/ value = Str(<<>>)
  \/ (value.t = "string" /\ Trim(value.s) = <<>>)
  \/ (value.t = "array" /\ Len(value.a) = 0)
  \/ (value.t \in {"object", "array"} /\ ObjectKeys(value) = {})

\* mutant: a nested object is kept even when filtering leaves it no key
RECURSIVE filterEmptyFields_KeepEmptied(_)
filterEmptyFields_KeepEmptied(obj) ==
  LET kept == {key \in ObjectKeys(obj) : ~isEmpty(obj.o[key])}
  IN Obj([key \in kept |->
            IF IsPlainObject(obj.o[key]) THEN filterEmptyFields_KeepEmptied(obj.o[key])
            ELSE obj.o[key]])

\* mutant: the empty elements of an array are removed
RECURSIVE filterEmptyFields_ArrayElements(_)
filterEmptyFields_ArrayElements(obj) ==
  LET filteredNested(key) == filterEmptyFields_ArrayElements(obj.o[key])
      NonEmpty(v) == ~isEmpty(v)
      kept == {key \in ObjectKeys(obj) :
                 /\ ~isEmpty(obj.o[key])
                 /\ IsPlainObject(obj.o[key]) => ObjectKeys(filteredNested(key)) # {}}
  IN Obj([key \in kept |->
            IF IsPlainObject(obj.o[key]) THEN filteredNested(key)
            ELSE IF obj.o[key].t = "array" THEN Arr(SelectSeq(obj.o[key].a, NonEmpty))
            ELSE obj.o[key]])

RECURSIVE filterEmptyFields(_)
filterEmptyFields(obj) ==
  LET filteredNested(key) == filterEmptyFields(obj.o[key])
      kept == {key \in ObjectKeys(obj) :
                 /\ ~isEmpty(obj.o[key])
                 /\ IsPlainObject(obj.o[key]) => ObjectKeys(filteredNested(key)) # {}}
  IN Obj([key \in kept |->
            IF IsPlainObject(obj.o[key]) THEN filteredNested(key) ELSE obj.o[key]])

KnownKeys ==
  {"vendor", "model", "version", "location", "ports", "uptime", "cpu", "memory"}

\* mutant: only the known keys reach the display metadata
adaptBackendNode_KnownOnly(backendNode) ==
  LET filteredMetadata == filterEmptyFields(Or(Get(backendNode, "metadata"), EmptyObject))
  IN Obj("id" :> Get(backendNode, "id")
         @@ "type" :> Get(backendNode, "type")
         @@ "label" :> Get(backendNode, "name")
         @@ "ip" :> Or(Get(backendNode, "ip_address"), Undefined)
         @@ "status" :> Get(backendNode, "status")
         @@ "layer" :> Get(backendNode, "layer")
         @@ "metadata" :>
              Obj([key \in KnownKeys |-> Or(Get(filteredMetadata, key), Undefined)])
         @@ "position" :> Or(Get(backendNode, "position"),
                             Obj("x" :> Num(0) @@ "y" :> Num(0))))

adaptBackendNode(backendNode) ==
  LET filteredMetadata == filterEmptyFields(Or(Get(backendNode, "metadata"), EmptyObject))
      rest == ObjectKeys(filteredMetadata) \ KnownKeys
  IN Obj("id" :> Get(backendNode, "id")
         @@ "type" :> Get(backendNode, "type")
         @@ "label" :> Get(backendNode, "name")
         @@ "ip" :> Or(Get(backendNode, "ip_address"), Undefined)
         @@ "status" :> Get(backendNode, "status")
         @@ "layer" :> Get(backendNode, "layer")
         @@ "metadata" :>
              Obj([key \in KnownKeys \cup rest |->
                     IF key \in KnownKeys THEN Or(Get(filteredMetadata, key), Undefined)
                     ELSE filteredMetadata.o[key]])
         @@ "position" :> Or(Get(backendNode, "position"),
                             Obj("x" :> Num(0) @@ "y" :> Num(0))))

adaptBackendEdge(backendEdge) ==
  Obj("id" :> Get(backendEdge, "id")
      @@ "source" :> Get(backendEdge, "source")
      @@ "target" :> Get(backendEdge, "target")
      @@ "type" :> Get(backendEdge, "type")
      @@ "bandwidth" :> Or(Get(backendEdge, "bandwidth"), Undefined)
      @@ "utilization" :> Or(Get(backendEdge, "utilization"), Undefined)
      @@ "status" :> Get(backendEdge, "status"))

adaptFrontendNode(frontendNode) ==
  Obj("name" :> Get(frontendNode, "label")
      @@ "type" :> Get(frontendNode, "type")
      @@ "ip_address" :> Get(frontendNode, "ip")
      @@ "status" :> Get(frontendNode, "status")
      @@ "layer" :> Get(frontendNode, "layer")
      @@ "position" :> Get(frontendNode, "position")
      @@ "metadata" :> filterEmptyFields(Or(Get(frontendNode, "metadata"), EmptyObject)))

adaptFrontendEdge(frontendEdge) ==
  Obj("source" :> Get(frontendEdge, "source")
      @@ "target" :> Get(frontendEdge, "target")
      @@ "type" :> Get(frontendEdge, "type")
      @@ "bandwidth" :> Get(frontendEdge, "bandwidth")
      @@ "utilization" :> Get(frontendEdge, "utilization")
      @@ "status" :> Get(frontendEdge, "status")
      @@ "metadata" :> EmptyObject)

\* no call of an adapter function is under way
NoCall == [fn |-> "none", arg |-> Undefined, done |-> FALSE, result |-> Undefined]

-----------------------------------------------------------------------------
(* WebSocketManager *)

maxReconnectAttempts == 5
reconnectDelay == 1000

MaxManagers == 2       \* WebSocketManager objects the hook may construct
MaxQueue == 2          \* messages in flight in one direction
MaxChanges == 2        \* commits the store makes before it stops changing

Managers == 1..MaxManagers
Sessions == {"s1", "s2"}

\* A manager before its construction.  sock is the readyState of the
\* transport it created last; wsSet tells whether this.ws still refers to it.
\* timer tells whether a timeout of attemptReconnect is pending, delay is the
\* delay the last one was set with since a transport last opened (0: none).
\* parseLog is history: "dropped" once onmessage has caught a parse error,
\* "resumed" once it has handed on a message after that.
NoManager ==
  [exists |-> FALSE, sessionId |-> "s1", wsSet |-> FALSE, sock |-> "none",
   reconnectAttempts |-> 0, timer |-> FALSE, delay |-> 0, handlers |-> FALSE,
   awaited |-> FALSE, tornDown |-> FALSE, parseLog |-> "no"]

\* new WebSocketManager(sessionId)
NewManager(sid) == [NoManager EXCEPT !.exists = TRUE, !.sessionId = sid]

\* WebSocketManager.connect: new WebSocket(url)
MgrConnect(m) == [m EXCEPT !.wsSet = TRUE, !.sock = "connecting"]

\* mutant: every timeout is set with the same delay
AttemptReconnect_Fixed(m) ==
  IF m.reconnectAttempts < maxReconnectAttempts
  THEN [m EXCEPT !.reconnectAttempts = @ + 1, !.timer = TRUE, !.delay = reconnectDelay]
  ELSE m

\* mutant: the attempts are not capped
AttemptReconnect_Uncapped(m) ==
  [m EXCEPT !.reconnectAttempts = IF @ < maxReconnectAttempts THEN @ + 1 ELSE @,
            !.timer = TRUE,
            !.delay = reconnectDelay * (IF m.reconnectAttempts < maxReconnectAttempts
                                        THEN m.reconnectAttempts + 1
                                        ELSE m.reconnectAttempts)]

\* WebSocketManager.attemptReconnect
AttemptReconnect(m) ==
  IF m.reconnectAttempts < maxReconnectAttempts
  THEN [m EXCEPT !.reconnectAttempts = @ + 1, !.timer = TRUE,
                 !.delay = reconnectDelay * (m.reconnectAttempts + 1)]
  ELSE m

\* WebSocketManager.disconnect: ws.close(); ws = null.  Closing a transport
\* that is still connecting aborts it (error, then close).
MgrDisconnect(m) ==
  IF m.wsSet
  THEN [m EXCEPT !.wsSet = FALSE,
                 !.sock = CASE @ = "open" -> "closing"
                            [] @ = "connecting" -> "aborting"
                            [] OTHER -> @]
  ELSE m

\* WebSocketManager.send: only on a transport that is present and OPEN
CanSend(k) == mgr[k].wsSet /\ mgr[k].sock = "open"

\* mutant: send does not look at readyState
Send_Unchecked(k, type) ==
  IF k # 0
  THEN Len(c2s) < MaxQueue /\ c2s' = Append(c2s, [from |-> k, type |-> type])
  ELSE UNCHANGED c2s

Send(k, type) ==
  IF k # 0 /\ CanSend(k)
  THEN Len(c2s) < MaxQueue /\ c2s' = Append(c2s, [from |-> k, type |-> type])
  ELSE UNCHANGED c2s

-----------------------------------------------------------------------------
(* useRealtimeGraph *)

ConnectionFailed == "Connection failed"

InitialState ==
  [nodes |-> <<>>, edges |-> <<>>, isConnected |-> FALSE, isConnecting |-> FALSE,
   lastUpdated |-> NULL, connectionError |-> NULL]

\* setState: an update of a component that is not mounted is dropped
SetState(new) == state' = IF mounted = "yes" THEN new ELSE state

FreeManagers == {k \in Managers : ~mgr[k].exists}
NextManager == CHOOSE k \in FreeManagers : \A j \in FreeManagers : k <= j

\* the continuation of connect after `await wsManagerRef.current.connect()`
ConnectResolved(s) ==
  [s EXCEPT !.isConnected = TRUE, !.isConnecting = FALSE, !.connectionError = NULL]

\* the catch block of connect
ConnectRejected(s) ==
  [s EXCEPT !.isConnected = FALSE, !.isConnecting = FALSE,
            !.connectionError = ConnectionFailed]

\* connect, as the closure of a render that saw isConnecting = closIsConnecting
\* and sessionId = sid; cur is the state its setState updater is applied to.
connect(cur, closIsConnecting, sid) ==
  IF wsManagerRef # 0 \/ closIsConnecting
  THEN /\ state' = cur
       /\ UNCHANGED <<wsManagerRef, mgr, s2c>>
  ELSE /\ FreeManagers # {}
       /\ LET k == NextManager IN
            /\ state' = [cur EXCEPT !.isConnecting = TRUE, !.connectionError = NULL]
            /\ wsManagerRef' = k
            /\ mgr' = [mgr EXCEPT ![k] =
                         [MgrConnect(NewManager(sid)) EXCEPT !.handlers = TRUE,
                                                             !.awaited = TRUE]]
            /\ s2c' = [s2c EXCEPT ![k] = <<>>]

\* mutant: disconnect also empties the mirror
disconnect_Reset(live) ==
  /\ IF wsManagerRef # 0
     THEN /\ mgr' = [mgr EXCEPT ![wsManagerRef] =
                       MgrDisconnect([@ EXCEPT !.handlers = FALSE, !.tornDown = TRUE])]
          /\ wsManagerRef' = 0
     ELSE UNCHANGED <<mgr, wsManagerRef>>
  /\ state' = IF live
              THEN [state EXCEPT !.isConnected = FALSE, !.isConnecting = FALSE,
                                 !.nodes = <<>>, !.edges = <<>>]
              ELSE state

\* disconnect; an unmounting component's setState is dropped
disconnect(live) ==
  /\ IF wsManagerRef # 0
     THEN /\ mgr' = [mgr EXCEPT ![wsManagerRef] =
                       MgrDisconnect([@ EXCEPT !.handlers = FALSE, !.tornDown = TRUE])]
          /\ wsManagerRef' = 0
     ELSE UNCHANGED <<mgr, wsManagerRef>>
  /\ state' = IF live
              THEN [state EXCEPT !.isConnected = FALSE, !.isConnecting = FALSE]
              ELSE state

\* handleGraphUpdate: setState(prevState => ...), with the pong reply the
\* updater sends to the manager in wsManagerRef
handleGraphUpdate(update) ==
  /\ lastMsg' = update
  /\ prevSize' = [nodes |-> Len(state.nodes), edges |-> Len(state.edges),
                  updatedBefore |-> UpdatedBefore(lastMsg, update)]
  /\ IF mounted = "yes"
     THEN /\ state' = Reducer(state, update)
          /\ IF update.type = "ping" THEN Send(wsManagerRef, "pong") ELSE UNCHANGED c2s
     ELSE UNCHANGED <<state, c2s>>

-----------------------------------------------------------------------------
(* The server side of one session, as the hub is specified: on connection  *)
(* it sends connection_established and then a full graph_state; it answers *)
(* request_graph_state with a graph_state and ping with pong.              *)

EmptyStore == [nodes |-> <<>>, edges |-> <<>>]

ServerOnConnect == <<ControlMsg("connection_established", "t1"), GraphStateMsg(store, "t1")>>

\* control messages of a transport are lost with it
Purge(q, k) == SelectSeq(q, LAMBDA c : c.from # k)

-----------------------------------------------------------------------------
(* Initial state: the component is not mounted yet *)

Init ==
  /\ state = InitialState
  /\ lastMsg = NoMsg
  /\ prevSize = [nodes |-> 0, edges |-> 0, updatedBefore |-> {}]
  /\ wsManagerRef = 0
  /\ mgr = [k \in Managers |-> NoManager]
  /\ rendered = [isConnected |-> FALSE, isConnecting |-> FALSE, sessionId |-> "s1"]
  /\ sessionId = "s1"
  /\ mounted = "no"
  /\ interval = FALSE
  /\ store = EmptyStore
  /\ commits = 0
  /\ adapter = NoCall
  /\ s2c = [k \in Managers |-> <<>>]
  /\ c2s = <<>>

-----------------------------------------------------------------------------
(* React: renders and effects *)

\* A render with sessionId = sid commits and runs the effects whose
\* dependencies changed: the auto-connect effect ([connect], and connect
\* depends on sessionId and state.isConnecting) and the resync effect
\* ([state.isConnected]).
RenderWith(sid) ==
  /\ mounted = "yes"
  /\ rendered' = [isConnected |-> state.isConnected,
                  isConnecting |-> state.isConnecting, sessionId |-> sid]
  /\ interval' = state.isConnected
  /\ IF rendered.isConnecting # state.isConnecting \/ rendered.sessionId # sid
     THEN connect(state, state.isConnecting, sid)
     ELSE UNCHANGED <<state, wsManagerRef, mgr, s2c>>
  /\ UNCHANGED <<lastMsg, prevSize, mounted, store, commits, adapter, c2s>>

\* first render and first run of the effects
Mount ==
  /\ mounted = "no"
  /\ mounted' = "yes"
  /\ rendered' = [isConnected |-> FALSE, isConnecting |-> FALSE, sessionId |-> sessionId]
  /\ interval' = FALSE
  /\ connect(state, FALSE, sessionId)
  /\ UNCHANGED <<lastMsg, prevSize, sessionId, store, commits, adapter, c2s>>

\* re-render after setState changed isConnected or isConnecting
Render ==
  /\ <<state.isConnected, state.isConnecting>> # <<rendered.isConnected, rendered.isConnecting>>
  /\ RenderWith(sessionId)
  /\ UNCHANGED sessionId

\* the parent passes another sessionId
SessionChange ==
  \E sid \in Sessions \ {sessionId} :
    /\ sessionId' = sid
    /\ RenderWith(sid)

\* unmount: the cleanups run disconnect() and clearInterval
Unmount ==
  /\ mounted = "yes"
  /\ mounted' = "gone"
  /\ interval' = FALSE
  /\ disconnect(FALSE)
  /\ UNCHANGED <<lastMsg, prevSize, rendered, sessionId, store, commits, adapter, s2c, c2s>>

\* mutant: the interval callback requests nothing
ResyncTick_Idle ==
  /\ interval
  /\ UNCHANGED vars

\* the setInterval callback of the resync effect
ResyncTick ==
  /\ interval
  /\ IF wsManagerRef # 0 /\ rendered.isConnected
     THEN Send(wsManagerRef, "request_graph_state")
     ELSE UNCHANGED c2s
  /\ UNCHANGED <<state, lastMsg, prevSize, wsManagerRef, mgr, rendered, sessionId, mounted,
                 interval, store, commits, adapter, s2c>>

-----------------------------------------------------------------------------
(* The actions the hook returns, called by its user *)

UserConnect ==
  /\ mounted = "yes"
  /\ connect(state, rendered.isConnecting, rendered.sessionId)
  /\ UNCHANGED <<lastMsg, prevSize, rendered, sessionId, mounted, interval, store, commits,
                 adapter, c2s>>

UserDisconnect ==
  /\ mounted = "yes"
  /\ disconnect(TRUE)
  /\ UNCHANGED <<lastMsg, prevSize, rendered, sessionId, mounted, interval, store, commits,
                 adapter, s2c, c2s>>

UserRequestGraphState ==
  /\ mounted = "yes"
  /\ Send(wsManagerRef, "request_graph_state")
  /\ UNCHANGED <<state, lastMsg, prevSize, wsManagerRef, mgr, rendered, sessionId, mounted,
                 interval, store, commits, adapter, s2c>>

UserPing ==
  /\ mounted = "yes"
  /\ Send(wsManagerRef, "ping")
  /\ UNCHANGED <<state, lastMsg, prevSize, wsManagerRef, mgr, rendered, sessionId, mounted,
                 interval, store, commits, adapter, s2c>>

-----------------------------------------------------------------------------
(* Transport events of manager k, as the handlers set in                   *)
(* WebSocketManager.connect see them                                       *)

\* ws.onerror: reject(error).  Only the promise of the hook's own connect()
\* is awaited; its catch block runs when that promise is still pending.
Rejected(k) ==
  IF mgr[k].awaited
  THEN /\ SetState(ConnectRejected(state))
       /\ wsManagerRef' = 0
  ELSE UNCHANGED <<state, wsManagerRef>>

\* mutant: onopen leaves the attempt counter as it is
SockOpen_NoReset(k) ==
  /\ mgr[k].sock = "connecting"
  /\ mgr' = [mgr EXCEPT ![k] = [@ EXCEPT !.sock = "open", !.awaited = FALSE]]
  /\ SetState(IF mgr[k].awaited THEN ConnectResolved(state) ELSE state)
  /\ s2c' = [s2c EXCEPT ![k] = ServerOnConnect]
  /\ UNCHANGED <<lastMsg, prevSize, wsManagerRef, rendered, sessionId, mounted, interval,
                 store, commits, adapter, c2s>>

\* ws.onopen, and the continuation of the hook's connect() when it awaits
SockOpen(k) ==
  /\ mgr[k].sock = "connecting"
  /\ mgr' = [mgr EXCEPT ![k] = [@ EXCEPT !.sock = "open", !.reconnectAttempts = 0,
                                        !.delay = 0, !.awaited = FALSE]]
  /\ SetState(IF mgr[k].awaited THEN ConnectResolved(state) ELSE state)
  /\ s2c' = [s2c EXCEPT ![k] = ServerOnConnect]
  /\ UNCHANGED <<lastMsg, prevSize, wsManagerRef, rendered, sessionId, mounted, interval,
                 store, commits, adapter, c2s>>

\* the transport fails to open: ws.onerror, then ws.onclose
SockFail(k) ==
  /\ mgr[k].sock = "connecting"
  /\ Rejected(k)
  /\ mgr' = [mgr EXCEPT ![k] = AttemptReconnect([@ EXCEPT !.sock = "closed",
                                                         !.awaited = FALSE])]
  /\ UNCHANGED <<lastMsg, prevSize, rendered, sessionId, mounted, interval, store, commits,
                 adapter, s2c, c2s>>

\* an open transport closes or errors: ws.onclose (ws.onerror rejects a
\* promise that is settled already)
SockDrop(k) ==
  /\ mgr[k].sock = "open"
  /\ mgr' = [mgr EXCEPT ![k] = AttemptReconnect([@ EXCEPT !.sock = "closed"])]
  /\ s2c' = [s2c EXCEPT ![k] = <<>>]
  /\ c2s' = Purge(c2s, k)
  /\ UNCHANGED <<state, lastMsg, prevSize, wsManagerRef, rendered, sessionId, mounted,
                 interval, store, commits, adapter>>

\* the close that ws.close() asked for completes: ws.onclose, preceded by
\* ws.onerror when the transport had not opened yet
SockClosed(k) ==
  /\ mgr[k].sock \in {"closing", "aborting"}
  /\ IF mgr[k].sock = "aborting" THEN Rejected(k) ELSE UNCHANGED <<state, wsManagerRef>>
  /\ mgr' = [mgr EXCEPT ![k] = AttemptReconnect([@ EXCEPT !.sock = "closed",
                                                         !.awaited = FALSE])]
  /\ s2c' = [s2c EXCEPT ![k] = <<>>]
  /\ c2s' = Purge(c2s, k)
  /\ UNCHANGED <<lastMsg, prevSize, rendered, sessionId, mounted, interval, store, commits,
                 adapter>>

\* the setTimeout callback of attemptReconnect: this.connect()
TimerFire(k) ==
  /\ mgr[k].timer
  /\ mgr' = [mgr EXCEPT ![k] = MgrConnect([@ EXCEPT !.timer = FALSE])]
  /\ s2c' = [s2c EXCEPT ![k] = <<>>]
  /\ UNCHANGED <<state, lastMsg, prevSize, wsManagerRef, rendered, sessionId, mounted,
                 interval, store, commits, adapter, c2s>>

\* ws.onmessage with a message that parses to update
Receive(k, update) ==
  IF mgr[k].handlers
  THEN handleGraphUpdate(update)
  ELSE UNCHANGED <<state, lastMsg, prevSize, c2s>>

\* mutant: a parse error closes the transport
ParseFailed_Close(k) ==
  /\ mgr' = [mgr EXCEPT ![k] = AttemptReconnect([@ EXCEPT !.sock = "closed",
                                                         !.parseLog = "dropped"])]
  /\ UNCHANGED <<state, lastMsg, prevSize, c2s>>

\* the catch block of ws.onmessage: console.error, nothing else
ParseFailed(k) ==
  /\ mgr' = [mgr EXCEPT ![k].parseLog = "dropped"]
  /\ UNCHANGED <<state, lastMsg, prevSize, c2s>>

\* mutant: the frame that arrived last is handled first
OnMessage_NewestFirst(k) ==
  /\ mgr[k].sock = "open"
  /\ s2c[k] # <<>>
  /\ LET frame == s2c[k][Len(s2c[k])] IN
       IF Parses(frame)
       THEN /\ Receive(k, frame)
            /\ mgr' = [mgr EXCEPT ![k].parseLog = IF @ = "dropped" THEN "resumed" ELSE @]
       ELSE ParseFailed(k)
  /\ s2c' = [s2c EXCEPT ![k] = SubSeq(@, 1, Len(@) - 1)]
  /\ UNCHANGED <<wsManagerRef, rendered, sessionId, mounted, interval, store, commits, adapter>>

OnMessage(k) ==
  /\ mgr[k].sock = "open"
  /\ s2c[k] # <<>>
  /\ IF Parses(Head(s2c[k]))
     THEN /\ Receive(k, Head(s2c[k]))
          /\ mgr' = [mgr EXCEPT ![k].parseLog = IF @ = "dropped" THEN "resumed" ELSE @]
     ELSE ParseFailed(k)
  /\ s2c' = [s2c EXCEPT ![k] = Tail(@)]
  /\ UNCHANGED <<wsManagerRef, rendered, sessionId, mounted, interval, store, commits, adapter>>

-----------------------------------------------------------------------------
(* Server *)

ServerReceive ==
  /\ c2s # <<>>
  /\ LET c == Head(c2s)
         reply == CASE c.type = "request_graph_state" -> <<GraphStateMsg(store, "t2")>>
                    [] c.type = "ping" -> <<ControlMsg("pong", "t1")>>
                    [] OTHER -> <<>>
     IN /\ Len(s2c[c.from]) + Len(reply) <= MaxQueue
        /\ s2c' = [s2c EXCEPT ![c.from] = @ \o reply]
  /\ c2s' = Tail(c2s)
  /\ UNCHANGED <<state, lastMsg, prevSize, wsManagerRef, mgr, rendered, sessionId, mounted,
                 interval, store, commits, adapter>>

\* a control message of the client gets no answer
ServerSilent ==
  /\ c2s # <<>>
  /\ c2s' = Tail(c2s)
  /\ UNCHANGED <<state, lastMsg, prevSize, wsManagerRef, mgr, rendered, sessionId, mounted,
                 interval, store, commits, adapter, s2c>>

\* a frame that is not JSON reaches the transport of manager k
ServerGarble(k) ==
  /\ mgr[k].sock = "open"
  /\ Len(s2c[k]) < MaxQueue
  /\ s2c' = [s2c EXCEPT ![k] = Append(@, Garbled)]
  /\ UNCHANGED <<state, lastMsg, prevSize, wsManagerRef, mgr, rendered, sessionId, mounted,
                 interval, store, commits, adapter, c2s>>

\* keepalive ping of the hub
ServerPing(k) ==
  /\ mgr[k].sock = "open"
  /\ Len(s2c[k]) < MaxQueue
  /\ s2c' = [s2c EXCEPT ![k] = Append(@, ControlMsg("ping", "t1"))]
  /\ UNCHANGED <<state, lastMsg, prevSize, wsManagerRef, mgr, rendered, sessionId, mounted,
                 interval, store, commits, adapter, c2s>>

\* the commits the store can make next, each with the graph_update
\* envelopes the mutation pipeline emits for it (a node deletion also emits
\* the deletion of every edge that referenced the node)
InsertNode(nodes, d) == IF d.id = "n1" THEN <<d>> \o nodes ELSE Append(nodes, d)

Envelope(ut, et, d) == GraphUpdateMsg(ut, et, d, d.last_updated)

EdgeDeletions(edges, n) ==
  LET gone == SelectSeq(edges, LAMBDA e : Touches(e, n))
  IN [i \in 1..Len(gone) |-> Envelope("deleted", "edge", gone[i])]

StoreChanges ==
  {[store |-> [store EXCEPT !.nodes = InsertNode(@, d)],
    msgs |-> <<Envelope("created", "node", d)>>] :
     d \in {x \in NodeData : x.id \notin Ids(store.nodes)}}
  \cup
  {[store |-> [store EXCEPT !.nodes = Replace(@, d)],
    msgs |-> <<Envelope("updated", "node", d)>>] :
     d \in {x \in NodeData : x.id \in Ids(store.nodes) /\ x \notin Range(store.nodes)}}
  \cup
  {[store |-> [nodes |-> SelectSeq(store.nodes, LAMBDA x : x.id # d.id),
               edges |-> SelectSeq(store.edges, LAMBDA e : ~Touches(e, d.id))],
    msgs |-> EdgeDeletions(store.edges, d.id) \o <<Envelope("deleted", "node", d)>>] :
     d \in Range(store.nodes)}
  \cup
  {[store |-> [store EXCEPT !.edges = Append(@, d)],
    msgs |-> <<Envelope("created", "edge", d)>>] :
     d \in {x \in EdgeData : /\ x.id \notin Ids(store.edges)
                             /\ x.source \in Ids(store.nodes)
                             /\ x.target \in Ids(store.nodes)}}
  \cup
  {[store |-> [store EXCEPT !.edges = Replace(@, d)],
    msgs |-> <<Envelope("updated", "edge", d)>>] :
     d \in {x \in EdgeData : x.id \in Ids(store.edges) /\ x \notin Range(store.edges)}}
  \cup
  {[store |-> [store EXCEPT !.edges = SelectSeq(@, LAMBDA e : e.id # d.id)],
    msgs |-> <<Envelope("deleted", "edge", d)>>] :
     d \in Range(store.edges)}

\* what reaches one session of a broadcast: every envelope may be lost,
\* delivered, or delivered twice; order is kept
RECURSIVE Deliveries(_)
Deliveries(msgs) ==
  IF msgs = <<>> THEN {<<>>}
  ELSE {a \o b : a \in {<<>>, <<Head(msgs)>>, <<Head(msgs), Head(msgs)>>},
                 b \in Deliveries(Tail(msgs))}

OpenSessions == {k \in Managers : mgr[k].sock = "open"}

\* a commit of the store and its broadcast
StoreCommit ==
  /\ commits < MaxChanges
  /\ \E c \in StoreChanges :
       /\ store' = c.store
       /\ \E dl \in [OpenSessions -> Deliveries(c.msgs)] :
            /\ \A k \in OpenSessions : Len(s2c[k]) + Len(dl[k]) <= MaxQueue
            /\ s2c' = [k \in Managers |-> IF k \in OpenSessions THEN s2c[k] \o dl[k]
                                            ELSE s2c[k]]
  /\ commits' = commits + 1
  /\ UNCHANGED <<state, lastMsg, prevSize, wsManagerRef, mgr, rendered, sessionId,
                 mounted, interval, adapter, c2s>>

-----------------------------------------------------------------------------
(* Specification of the connection life cycle *)

Next ==
  \/ Mount
  \/ Render
  \/ UserConnect
  \/ UserDisconnect
  \/ \E k \in Managers : SockOpen(k)
  \/ \E k \in Managers : SockFail(k)
  \/ \E k \in Managers : SockDrop(k)
  \/ \E k \in Managers : SockClosed(k)
  \/ \E k \in Managers : TimerFire(k)
  \/ \E k \in Managers : OnMessage(k)

Spec == Init /\ [][Next]_vars

\* the same with the disposal of the component
NextTeardown == Next \/ Unmount

SpecTeardown == Init /\ [][NextTeardown]_vars

\* the engine left to itself against a server that refuses every transport
NextFail ==
  \/ Mount
  \/ Render
  \/ \E k \in Managers : SockFail(k)
  \/ \E k \in Managers : TimerFire(k)

SpecFail == Init /\ [][NextFail]_vars

\* the life cycle under a parent that passes another sessionId
NextSession == Next \/ SessionChange

SpecSession == Init /\ [][NextSession]_vars

\* the life cycle with the control traffic of an open transport: resync
\* ticks, the user's requestGraphState and ping, the server's answers and
\* its keepalive pings
NextControl ==
  \/ Next
  \/ ResyncTick
  \/ UserRequestGraphState
  \/ UserPing
  \/ ServerReceive
  \/ \E k \in Managers : ServerPing(k)

SpecControl == Init /\ [][NextControl]_vars

-----------------------------------------------------------------------------
(* Specification of the frame: the life cycle and the control traffic over *)
(* a server that holds a graph, with a user who disconnects once and one   *)
(* control message under way at a time                                     *)

SeedStore ==
  [nodes |-> <<[id |-> "n1", last_updated |-> "t1"], [id |-> "n2", last_updated |-> "t1"]>>,
   edges |-> <<[id |-> "e1", source |-> "n1", target |-> "n2", last_updated |-> "t1"]>>]

InitFrame ==
  /\ state = InitialState
  /\ lastMsg = NoMsg
  /\ prevSize = [nodes |-> 0, edges |-> 0, updatedBefore |-> {}]
  /\ wsManagerRef = 0
  /\ mgr = [k \in Managers |-> NoManager]
  /\ rendered = [isConnected |-> FALSE, isConnecting |-> FALSE, sessionId |-> "s1"]
  /\ sessionId = "s1"
  /\ mounted = "no"
  /\ interval = FALSE
  /\ store = SeedStore
  /\ commits = 0
  /\ adapter = NoCall
  /\ s2c = [k \in Managers |-> <<>>]
  /\ c2s = <<>>

NextFrame ==
  \/ Mount
  \/ Render
  \/ UserConnect
  \/ ((\A k \in Managers : ~mgr[k].tornDown) /\ UserDisconnect)
  \/ (c2s = <<>> /\ UserRequestGraphState)
  \/ (c2s = <<>> /\ UserPing)
  \/ \E k \in Managers : SockOpen(k)
  \/ \E k \in Managers : SockFail(k)
  \/ \E k \in Managers : SockDrop(k)
  \/ \E k \in Managers : SockClosed(k)
  \/ \E k \in Managers : OnMessage(k)
  \/ ServerReceive
  \/ \E k \in Managers : (s2c[k] = <<>> /\ ServerPing(k))

SpecFrame == InitFrame /\ [][NextFrame]_vars

-----------------------------------------------------------------------------
(* Specifications of utils/dataAdapter.ts: one call of one function on an  *)
(* argument drawn from a bounded universe of values                        *)

MaxDepth == 2          \* nesting depth of the metadata objects

MetadataKeys == {"vendor", "tags"}

Leaves == {Null, Undefined, Str(<<>>), Str(<<" ">>), Str(<<"x">>), Num(0)}

\* values nested d deep at most: the leaves, the empty array and object,
\* arrays of one element, objects of one key, and objects of two leaves
RECURSIVE Values(_)
Values(d) ==
  IF d = 0 THEN Leaves \cup {Arr(<<>>), EmptyObject}
  ELSE Values(d - 1)
       \cup {Arr(<<v>>) : v \in Values(d - 1)}
       \cup {Obj(k :> v) : k \in MetadataKeys, v \in Values(d - 1)}
       \cup {Obj("vendor" :> v @@ "tags" :> w) : v, w \in Leaves}

\* metadata objects: any of the keys, each with a value one level less deep
MetadataObjects ==
  {Obj(f) : f \in UNION {[S -> Values(MaxDepth - 1)] : S \in SUBSET MetadataKeys}}

Call(fn, arg) == [fn |-> fn, arg |-> arg, done |-> FALSE, result |-> Undefined]

Text == Str(<<"x">>)

\* metadata of a device reporting its number of ports
PortsMetadata == {Obj("ports" :> Num(n)) : n \in {0, 48}}

BackendNodes ==
  {Obj("id" :> Text @@ "name" :> Text @@ "type" :> Text @@ "ip_address" :> ip
       @@ "status" :> Text @@ "layer" :> Text
       @@ "position" :> Obj("x" :> Num(0) @@ "y" :> Num(0))
       @@ "metadata" :> md @@ "last_updated" :> Text) :
     ip \in {Null, Text}, md \in MetadataObjects \cup PortsMetadata}

BackendEdges ==
  {Obj("id" :> Text @@ "source" :> Text @@ "target" :> Text @@ "type" :> Text
       @@ "bandwidth" :> bw @@ "utilization" :> ut @@ "status" :> Text
       @@ "metadata" :> md @@ "last_updated" :> Text) :
     bw \in {Null, Str(<<" ">>), Text}, ut \in {Num(0), Num(42)},
     md \in {EmptyObject, Obj("vendor" :> Text)}}

FrontendNodes ==
  {Obj("id" :> Text @@ "type" :> Text @@ "label" :> Text @@ "ip" :> ip
       @@ "status" :> Text @@ "layer" :> Text @@ "metadata" :> md
       @@ "position" :> Obj("x" :> Num(0) @@ "y" :> Num(0))) :
     ip \in {Undefined, Text}, md \in MetadataObjects}

FrontendEdges ==
  {Obj("id" :> Text @@ "source" :> Text @@ "target" :> Text @@ "type" :> Text
       @@ "bandwidth" :> bw @@ "utilization" :> ut @@ "status" :> Text) :
     bw \in {Undefined, Str(<<>>), Text}, ut \in {Undefined, Num(0), Num(42)}}

AdapterFns ==
  {"adaptBackendNode", "adaptBackendEdge", "adaptFrontendNode", "adaptFrontendEdge"}

Apply(fn, arg) ==
  CASE fn = "isEmpty" -> Bool(isEmpty(arg))
    [] fn = "filterEmptyFields" -> filterEmptyFields(arg)
    [] fn = "adaptBackendNode" -> adaptBackendNode(arg)
    [] fn = "adaptBackendEdge" -> adaptBackendEdge(arg)
    [] fn = "adaptFrontendNode" -> adaptFrontendNode(arg)
    [] fn = "adaptFrontendEdge" -> adaptFrontendEdge(arg)

\* the hook is not mounted; the call in calls is about to run
InitCall(calls) ==
  /\ state = InitialState
  /\ lastMsg = NoMsg
  /\ prevSize = [nodes |-> 0, edges |-> 0, updatedBefore |-> {}]
  /\ wsManagerRef = 0
  /\ mgr = [k \in Managers |-> NoManager]
  /\ rendered = [isConnected |-> FALSE, isConnecting |-> FALSE, sessionId |-> "s1"]
  /\ sessionId = "s1"
  /\ mounted = "no"
  /\ interval = FALSE
  /\ store = EmptyStore
  /\ commits = 0
  /\ adapter \in calls
  /\ s2c = [k \in Managers |-> <<>>]
  /\ c2s = <<>>

\* the function returns
Return ==
  /\ adapter.fn # "none"
  /\ ~adapter.done
  /\ adapter' = [adapter EXCEPT !.done = TRUE, !.result = Apply(adapter.fn, adapter.arg)]
  /\ UNCHANGED <<state, lastMsg, prevSize, wsManagerRef, mgr, rendered, sessionId, mounted,
                 interval, store, commits, s2c, c2s>>

MaxLen == 2            \* longest string given to isEmpty

Chars == {" ", "\t", "x"}

\* the values isEmpty is called with: those of a metadata object, strings
\* of blank and other characters, numbers and booleans
IsEmptyArgs ==
  Values(MaxDepth - 1)
    \cup {Str(s) : s \in SeqsUpTo(Chars, MaxLen)}
    \cup {Num(n) : n \in {-1, 0, 42}}
    \cup {Bool(b) : b \in BOOLEAN}

InitIsEmpty == InitCall({Call("isEmpty", v) : v \in IsEmptyArgs})

SpecIsEmpty == InitIsEmpty /\ [][Return]_vars

InitFilter == InitCall({Call("filterEmptyFields", m) : m \in MetadataObjects})

SpecFilter == InitFilter /\ [][Return]_vars

\* adaptBackendNode on the nodes that have an address
InitBackendNode ==
  InitCall({Call("adaptBackendNode", n) : n \in {x \in BackendNodes : x.o["ip_address"] = Text}})

SpecBackendNode == InitBackendNode /\ [][Return]_vars

InitAdapter ==
  InitCall({Call("adaptBackendNode", n) : n \in BackendNodes}
           \cup {Call("adaptBackendEdge", e) : e \in BackendEdges}
           \cup {Call("adaptFrontendNode", n) : n \in FrontendNodes}
           \cup {Call("adaptFrontendEdge", e) : e \in FrontendEdges})

SpecAdapter == InitAdapter /\ [][Return]_vars

-----------------------------------------------------------------------------
(* utils/dataAdapter.ts on objects that have an identity.  The heap is the  *)
(* sequence of the objects and arrays allocated so far; a field holds a     *)
(* primitive value or a reference to a place of the heap.  An allocation    *)
(* appends, an assignment writes the field of an allocated object.          *)

Ref(addr) == [t |-> "ref", addr |-> addr]

\* the value a field holds, one level deep: the object or array it refers to
At(h, value) == IF value.t = "ref" THEN h[value.addr] ELSE value

\* mutant: the empty fields are deleted from obj, which is returned
filterEmptyFieldsIn_Place(h, obj) ==
  LET kept == {key \in ObjectKeys(h[obj]) : ~isEmpty(At(h, h[obj].o[key]))}
  IN [heap |-> [h EXCEPT ![obj] = Obj([key \in kept |-> h[obj].o[key]])],
      ref |-> Ref(obj)]

RECURSIVE filterEmptyFieldsIn(_, _)
RECURSIVE FilterEntries(_, _, _, _)

\* filterEmptyFields(obj): `filtered` is allocated, then the loop runs
filterEmptyFieldsIn(h, obj) ==
  LET filtered == Len(h) + 1
  IN [heap |-> FilterEntries(Append(h, EmptyObject), obj, filtered, ObjectKeys(h[obj])),
      ref |-> Ref(filtered)]

\* for (const [key, value] of Object.entries(obj)), the entries in keys
\* still to come
FilterEntries(h, obj, filtered, keys) ==
  IF keys = {} THEN h
  ELSE LET key == CHOOSE k \in keys : TRUE
           value == h[obj].o[key]
           nested == filterEmptyFieldsIn(h, value.addr)
       IN IF isEmpty(At(h, value)) THEN FilterEntries(h, obj, filtered, keys \ {key})
          ELSE IF IsPlainObject(At(h, value))
            THEN IF ObjectKeys(At(nested.heap, nested.ref)) # {}
                   THEN FilterEntries(
                          [nested.heap EXCEPT ![filtered].o = (key :> nested.ref) @@ @],
                          obj, filtered, keys \ {key})
                   ELSE FilterEntries(nested.heap, obj, filtered, keys \ {key})
            ELSE FilterEntries([h EXCEPT ![filtered].o = (key :> value) @@ @],
                               obj, filtered, keys \ {key})

\* adaptBackendNode(backendNode): the filtered metadata, the metadata
\* literal, the position and the node literal are allocated in turn
adaptBackendNodeIn(h, backendNode) ==
  LET md == Get(h[backendNode], "metadata")
      h0 == IF Truthy(md) THEN h ELSE Append(h, EmptyObject)
      fm == filterEmptyFieldsIn(h0, IF Truthy(md) THEN md.addr ELSE Len(h0))
      filteredMetadata == At(fm.heap, fm.ref)
      rest == ObjectKeys(filteredMetadata) \ KnownKeys
      h1 == Append(fm.heap,
                   Obj([key \in KnownKeys \cup rest |->
                          IF key \in KnownKeys THEN Or(Get(filteredMetadata, key), Undefined)
                          ELSE filteredMetadata.o[key]]))
      pos == Get(h[backendNode], "position")
      h2 == IF Truthy(pos) THEN h1 ELSE Append(h1, Obj("x" :> Num(0) @@ "y" :> Num(0)))
  IN [heap |-> Append(h2, Obj("id" :> Get(h[backendNode], "id")
                              @@ "type" :> Get(h[backendNode], "type")
                              @@ "label" :> Get(h[backendNode], "name")
                              @@ "ip" :> Or(Get(h[backendNode], "ip_address"), Undefined)
                              @@ "status" :> Get(h[backendNode], "status")
                              @@ "layer" :> Get(h[backendNode], "layer")
                              @@ "metadata" :> Ref(Len(h1))
                              @@ "position" :> IF Truthy(pos) THEN pos ELSE Ref(Len(h2)))),
      ref |-> Ref(Len(h2) + 1)]

adaptBackendEdgeIn(h, backendEdge) ==
  [heap |-> Append(h, adaptBackendEdge(h[backendEdge])), ref |-> Ref(Len(h) + 1)]

\* array.map(fn): fn is called on the elements in order, out holds the
\* results so far, the new array is returned
RECURSIVE ArrayMap(_, _, _, _)
ArrayMap(h, array, fn, out) ==
  IF Len(out) = Len(h[array].a)
    THEN [heap |-> Append(h, Arr(out)), ref |-> Ref(Len(h) + 1)]
    ELSE LET element == h[array].a[Len(out) + 1].addr
             r == IF fn = "adaptBackendNode" THEN adaptBackendNodeIn(h, element)
                  ELSE adaptBackendEdgeIn(h, element)
         IN ArrayMap(r.heap, array, fn, Append(out, r.ref))

adaptBackendNodes(h, backendNodes) == ArrayMap(h, backendNodes, "adaptBackendNode", <<>>)

adaptBackendEdges(h, backendEdges) == ArrayMap(h, backendEdges, "adaptBackendEdge", <<>>)

\* the mirror in the heap: realtimeState.nodes at 1 with its node at 2, the
\* node's metadata at 3, a value nested in the metadata at 4, the node's
\* position at 5; realtimeState.edges at 6 with its edge at 7
Mirrors ==
  {<<Arr(nodes),
     Obj("id" :> Text @@ "name" :> Text @@ "type" :> Text @@ "ip_address" :> Text
         @@ "status" :> Text @@ "layer" :> Text @@ "position" :> Ref(5)
         @@ "metadata" :> Ref(3) @@ "last_updated" :> Text),
     Obj("vendor" :> vendor @@ "tags" :> tags),
     inner,
     Obj("x" :> Num(0) @@ "y" :> Num(0)),
     Arr(<<Ref(7)>>),
     Obj("id" :> Text @@ "source" :> Text @@ "target" :> Text @@ "type" :> Text
         @@ "bandwidth" :> Text @@ "utilization" :> ut @@ "status" :> Text
         @@ "metadata" :> Null @@ "last_updated" :> Text)>> :
     nodes \in {<<>>, <<Ref(2)>>},
     vendor \in {Null, Str(<<" ">>), Text, Num(0)},
     tags \in {Null, Ref(4)},
     inner \in {EmptyObject, Arr(<<>>), Arr(<<Null>>)}
                 \cup {Obj("vendor" :> v @@ "tags" :> w) : v, w \in {Null, Text}},
     ut \in {Num(0), Num(42)}}

\* useNetworkData derives its view of the mirror; filterEmptyFields is also
\* called on the metadata alone
InitReadOnly ==
  InitCall({[fn |-> fn, arg |-> IF fn = "adaptBackendNodes" THEN 1
                                ELSE IF fn = "adaptBackendEdges" THEN 6 ELSE 3,
             done |-> FALSE, result |-> Undefined, heap |-> h] :
              fn \in {"adaptBackendNodes", "adaptBackendEdges", "filterEmptyFields"},
              h \in Mirrors})

\* the function returns what it built
ReturnBuilt ==
  /\ ~adapter.done
  /\ LET r == CASE adapter.fn = "adaptBackendNodes" -> adaptBackendNodes(adapter.heap, adapter.arg)
                [] adapter.fn = "adaptBackendEdges" -> adaptBackendEdges(adapter.heap, adapter.arg)
                [] adapter.fn = "filterEmptyFields" -> filterEmptyFieldsIn(adapter.heap, adapter.arg)
     IN adapter' = [adapter EXCEPT !.done = TRUE, !.result = r.ref, !.heap = r.heap]
  /\ UNCHANGED <<state, lastMsg, prevSize, wsManagerRef, mgr, rendered, sessionId, mounted,
                 interval, store, commits, s2c, c2s>>

SpecReadOnly == InitReadOnly /\ [][ReturnBuilt]_vars

-----------------------------------------------------------------------------
(* Specification of the reducer: a connected engine whose transport        *)
(* delivers any message                                                    *)

OpenManager ==
  [NoManager EXCEPT !.exists = TRUE, !.wsSet = TRUE, !.sock = "open", !.handlers = TRUE]

\* the engine after mount, a successful open, and the two greeting messages
\* of a server whose store is empty
InitReducer ==
  /\ state = [InitialState EXCEPT !.isConnected = TRUE, !.lastUpdated = "t1"]
  /\ lastMsg = GraphStateMsg(EmptyStore, "t1")
  /\ prevSize = [nodes |-> 0, edges |-> 0, updatedBefore |-> {}]
  /\ wsManagerRef = 1
  /\ mgr = [k \in Managers |-> IF k = 1 THEN OpenManager ELSE NoManager]
  /\ rendered = [isConnected |-> TRUE, isConnecting |-> FALSE, sessionId |-> "s1"]
  /\ sessionId = "s1"
  /\ mounted = "yes"
  /\ interval = TRUE
  /\ store = EmptyStore
  /\ commits = 0
  /\ adapter = NoCall
  /\ s2c = [k \in Managers |-> <<>>]
  /\ c2s = <<>>

ReducerMessages == {m \in Messages : m.type # "ping"}

IsCreated(m, et) ==
  m.type = "graph_update" /\ m.update_type = "created" /\ m.entity_type = et
    /\ m.entity_data # {}

\* the transport of manager 1 delivers update
Dispatch(update) ==
  /\ mgr[1].sock = "open"
  /\ IsCreated(update, "node") => Len(state.nodes) < MaxNodes
  /\ IsCreated(update, "edge") => Len(state.edges) < MaxEdges
  /\ Receive(1, update)
  /\ UNCHANGED <<wsManagerRef, mgr, rendered, sessionId, mounted, interval, store, commits,
                 adapter, s2c>>

NextReducer == \E update \in ReducerMessages : Dispatch(update)

SpecReducer == InitReducer /\ [][NextReducer]_vars

-----------------------------------------------------------------------------
(* Specification of one application of the reducer: a message of any kind  *)
(* is delivered to an engine that holds a graph, either connected or, with *)
(* its first open failed, fed by the manager it has abandoned              *)

PrevStates ==
  {[nodes |-> g.nodes, edges |-> g.edges, isConnected |-> connected,
    isConnecting |-> FALSE, lastUpdated |-> ts,
    connectionError |-> IF connected THEN NULL ELSE ConnectionFailed] :
     g \in Snapshots, ts \in Times, connected \in BOOLEAN}

InitApply ==
  /\ state \in PrevStates
  /\ lastMsg = NoMsg
  /\ prevSize = [nodes |-> 0, edges |-> 0, updatedBefore |-> {}]
  /\ wsManagerRef = IF state.isConnected THEN 1 ELSE 0
  /\ mgr = [k \in Managers |-> IF k = 1 THEN OpenManager ELSE NoManager]
  /\ rendered = [isConnected |-> state.isConnected, isConnecting |-> FALSE,
                 sessionId |-> "s1"]
  /\ sessionId = "s1"
  /\ mounted = "yes"
  /\ interval = state.isConnected
  /\ store = EmptyStore
  /\ commits = 0
  /\ adapter = NoCall
  /\ \E m \in Messages \cup OddUpdateMsgs :
       s2c = [k \in Managers |-> IF k = 1 THEN <<m>> ELSE <<>>]
  /\ c2s = <<>>

SpecApply == InitApply /\ [][OnMessage(1)]_vars

-----------------------------------------------------------------------------
(* Specification of the resync loop: the transport of a connected engine   *)
(* stays open while the store commits and its broadcasts get lost or       *)
(* duplicated                                                              *)

NextSync ==
  \/ StoreCommit
  \/ ResyncTick
  \/ ServerReceive
  \/ OnMessage(1)

SpecSync ==
  /\ InitReducer
  /\ [][NextSync]_vars
  /\ WF_vars(ResyncTick)
  /\ WF_vars(ServerReceive)
  /\ WF_vars(OnMessage(1))

-----------------------------------------------------------------------------
(* Specification of protocol errors: the broadcasts of the store with      *)
(* frames that are not JSON among them                                     *)

NextProtocol ==
  \/ StoreCommit
  \/ OnMessage(1)
  \/ ServerGarble(1)

SpecProtocol == InitReducer /\ [][NextProtocol]_vars

-----------------------------------------------------------------------------
(* Specification of reconnection: the manager of a connected engine over a *)
(* transport that drops, fails to reopen or reopens, with a user who may   *)
(* disconnect                                                              *)

NextReconnect ==
  \/ \E k \in Managers : SockDrop(k)
  \/ \E k \in Managers : TimerFire(k)
  \/ \E k \in Managers : SockFail(k)
  \/ \E k \in Managers : SockOpen(k)
  \/ \E k \in Managers : OnMessage(k)
  \/ \E k \in Managers : SockClosed(k)
  \/ UserDisconnect
  \/ UserConnect

SpecReconnect == InitReducer /\ [][NextReconnect]_vars

-----------------------------------------------------------------------------
(* Specification of sending: an engine whose transports fail to open or    *)
(* open and stay open, with one control message under way at a time        *)

Quiet == c2s = <<>> /\ \A k \in Managers : s2c[k] = <<>>

NextSend ==
  \/ Mount
  \/ Render
  \/ \E k \in Managers : SockFail(k)
  \/ \E k \in Managers : TimerFire(k)
  \/ \E k \in Managers : SockOpen(k)
  \/ \E k \in Managers : OnMessage(k)
  \/ \E k \in Managers : (Quiet /\ ServerPing(k))
  \/ (Quiet /\ UserPing)
  \/ (Quiet /\ UserRequestGraphState)
  \/ (Quiet /\ ResyncTick)
  \/ ServerReceive

SpecSend == Init /\ [][NextSend]_vars

-----------------------------------------------------------------------------
(* Specification of the liveness check: a connected engine whose user      *)
(* pings a server that may stay silent                                     *)

NextLiveness ==
  \/ NextSync
  \/ UserPing
  \/ ServerSilent

SpecLiveness ==
  /\ InitReducer
  /\ [][NextLiveness]_vars
  /\ WF_vars(ResyncTick)
  /\ WF_vars(ServerReceive \/ ServerSilent)
  /\ WF_vars(OnMessage(1))

-----------------------------------------------------------------------------
(* Properties of the reducer *)

\* C1: every edge of the mirror has a source and a target that are ids of
\* nodes present in the mirror.
C1_NoDanglingEdges ==
  \A i \in 1..Len(state.edges) :
    /\ state.edges[i].source \in Ids(state.nodes)
    /\ state.edges[i].target \in Ids(state.nodes)

\* C2: a 'created' delta applied a second time, right after its first
\* application, leaves nodes and edges as the first application left them.
C2_IdempotentCreate ==
  [][(/\ lastMsg.type = "graph_update"
      /\ lastMsg.update_type = "created"
      /\ lastMsg' = lastMsg)
       => (state'.nodes = state.nodes /\ state'.edges = state.edges)]_vars

\* C3: graph_update(deleted, node, N) removes every node with id N and
\* every edge touching N, and keeps all other nodes and edges, in order.
C3_CascadeDeletion ==
  [][IsDelta(lastMsg', "deleted", "node")
       => LET n == TheData(lastMsg').id IN
            /\ state'.nodes = SelectSeq(state.nodes, LAMBDA x : x.id # n)
            /\ state'.edges = SelectSeq(state.edges, LAMBDA e : ~Touches(e, n))]_vars

\* a node deletion took a node and, by cascade, an edge, and left others
C3_Witness ==
  /\ IsDelta(lastMsg, "deleted", "node")
  /\ Len(state.nodes) > 0 /\ Len(state.nodes) < prevSize.nodes
  /\ Len(state.edges) > 0 /\ Len(state.edges) < prevSize.edges

\* C4: after a graph_state is applied, the mirror's nodes and edges are
\* exactly those of the snapshot (none, for a field the snapshot lacks).
C4_ResyncDominance ==
  lastMsg.type = "graph_state" =>
    /\ IF lastMsg.nodes = {} THEN state.nodes = <<>> ELSE state.nodes \in lastMsg.nodes
    /\ IF lastMsg.edges = {} THEN state.edges = <<>> ELSE state.edges \in lastMsg.edges

\* a snapshot replaced a mirror that held more nodes and more edges
C4_Witness ==
  /\ lastMsg.type = "graph_state"
  /\ lastMsg.nodes # {}
  /\ Len(state.nodes) > 0 /\ Len(state.nodes) < prevSize.nodes
  /\ Len(state.edges) < prevSize.edges

C17_LastAppliedWins ==
  [][(/\ IsDelta(lastMsg, "updated", "edge")
      /\ IsDelta(lastMsg', "updated", "edge")
      /\ TheData(lastMsg).id = TheData(lastMsg').id
      /\ TheData(lastMsg').id \in Ids(state.edges))
       => /\ TheData(lastMsg') \in Range(state'.edges)
          /\ \A e \in Range(state'.edges) :
               e.id = TheData(lastMsg').id => e = TheData(lastMsg')
          /\ Len(state'.edges) = Len(state.edges)]_vars

\* an 'updated' delta stamped t1 replaced what the 'updated' delta stamped
\* t2 had put into the mirror for the same edge just before
C17_Witness ==
  /\ IsDelta(lastMsg, "updated", "edge")
  /\ TheData(lastMsg).last_updated = "t1"
  /\ prevSize.updatedBefore = {"t2"}
  /\ TheData(lastMsg) \in Range(state.edges)

\* C13: no two nodes of the mirror share an id and no two edges share an
\* id (every snapshot in Messages has unique ids).
C13_UniqueIds == UniqueIds(state.nodes) /\ UniqueIds(state.edges)

\* C26: once a 'created' or 'updated' delta is applied, every node or edge
\* of the mirror with the id of its entity_data is equal to that
\* entity_data, field for field (last_updated included).
C26_EntitiesAsSent ==
  [][/\ (IsDelta(lastMsg', "created", "node") \/ IsDelta(lastMsg', "updated", "node"))
          => \A n \in Range(state'.nodes) :
               n.id = TheData(lastMsg').id => n = TheData(lastMsg')
     /\ (IsDelta(lastMsg', "created", "edge") \/ IsDelta(lastMsg', "updated", "edge"))
          => \A e \in Range(state'.edges) :
               e.id = TheData(lastMsg').id => e = TheData(lastMsg')]_vars

\* C32: applying a graph_state or a graph_update leaves isConnected,
\* isConnecting and connectionError as they were.
C32_GraphMessagesKeepFlags ==
  [][lastMsg'.type \in {"graph_state", "graph_update"}
       => /\ state'.isConnected = state.isConnected
          /\ state'.isConnecting = state.isConnecting
          /\ state'.connectionError = state.connectionError]_vars

\* a snapshot filled the mirror of an engine that reports the failure of
\* its first open, and it still reports it
C32_Witness ==
  /\ lastMsg.type = "graph_state"
  /\ state.nodes # <<>> /\ lastMsg.nodes = {state.nodes}
  /\ ~state.isConnected
  /\ state.connectionError = ConnectionFailed

\* update is a graph_state, or a graph_update with its three fields
Stamps(update) ==
  \/ update.type = "graph_state"
  \/ /\ update.type = "graph_update"
     /\ update.update_type # NULL /\ update.entity_type # NULL /\ update.entity_data # {}

Anomalous(update) ==
  \/ /\ update.type = "graph_update"
     /\ (update.update_type = NULL \/ update.entity_type = NULL \/ update.entity_data = {})
  \/ update.type \notin
       {"connection_established", "graph_state", "graph_update", "ping", "pong"}

\* C34: a graph_update lacking update_type, entity_type or entity_data, and
\* a message of an unknown type, leave the whole state unchanged: nodes,
\* edges, lastUpdated and the connection flags.
C34_AnomaliesAbsorbed ==
  [][Anomalous(lastMsg') => state' = state]_vars

\* a message of an unknown type, stamped t1, was handled by an engine that
\* holds a graph last updated at t2, and it still does
C34_Witness ==
  /\ lastMsg.type = "unknown"
  /\ lastMsg.timestamp = "t1"
  /\ state.lastUpdated = "t2"
  /\ state.nodes # <<>>

-----------------------------------------------------------------------------
(* Properties of utils/dataAdapter.ts *)

\* value is one of the six kinds of empty value
EmptyValue(value) ==
  CASE value.t \in {"null", "undefined"} -> TRUE
    [] value.t = "string" -> \A i \in 1..Len(value.s) : value.s[i] \in WhiteSpace
    [] value.t = "array" -> value.a = <<>>
    [] value.t = "object" -> DOMAIN value.o = {}
    [] OTHER -> FALSE

\* C21: isEmpty(v) is true if and only if v is null, undefined, an empty or
\* whitespace-only string, an empty array or an object with no key; it is
\* false for every number, boolean, non-blank string, non-empty array and
\* object with a key.
C21_IsEmptyIff ==
  (adapter.fn = "isEmpty" /\ adapter.done)
    => adapter.result = Bool(EmptyValue(adapter.arg))

\* isEmpty has returned false for the number 0
C21_Witness ==
  /\ adapter.fn = "isEmpty" /\ adapter.done
  /\ adapter.arg = Num(0)
  /\ adapter.result = Bool(FALSE)

\* at every level of nested objects, out has exactly the keys of in whose
\* values are non-empty under isEmpty
RECURSIVE KeepsNonEmpty(_, _)
KeepsNonEmpty(in, out) ==
  /\ IsPlainObject(out)
  /\ ObjectKeys(out) = {key \in ObjectKeys(in) : ~isEmpty(in.o[key])}
  /\ \A key \in ObjectKeys(out) :
       IsPlainObject(in.o[key]) => KeepsNonEmpty(in.o[key], out.o[key])

\* C19: filterEmptyFields returns an object that, at every nesting level,
\* keeps exactly the keys of the input whose values are non-empty under
\* isEmpty and drops exactly the keys whose values are empty.
C19_KeepsExactlyNonEmpty ==
  (adapter.fn = "filterEmptyFields" /\ adapter.done)
    => KeepsNonEmpty(adapter.arg, adapter.result)

\* a value is non-empty and, when it is an object, has a key whose value
\* survives in its turn
RECURSIVE Survives(_)
Survives(value) ==
  /\ ~isEmpty(value)
  /\ IsPlainObject(value) => \E key \in ObjectKeys(value) : Survives(value.o[key])

RECURSIVE KeepsSurviving(_, _)
KeepsSurviving(in, out) ==
  /\ IsPlainObject(out)
  /\ ObjectKeys(out) = {key \in ObjectKeys(in) : Survives(in.o[key])}
  /\ \A key \in ObjectKeys(out) :
       IsPlainObject(in.o[key]) => KeepsSurviving(in.o[key], out.o[key])

\* C19, amended: at every level of nested objects filterEmptyFields keeps
\* exactly the keys whose values are non-empty under isEmpty and, when the
\* value is an object, still have a key after being filtered themselves;
\* it drops the keys whose values are empty or are left without a key.
C19_KeepsExactlySurviving ==
  (adapter.fn = "filterEmptyFields" /\ adapter.done)
    => KeepsSurviving(adapter.arg, adapter.result)

\* an empty value was dropped beside a nested object, which lost one of
\* its two keys and kept the other
C19_Witness ==
  /\ adapter.fn = "filterEmptyFields" /\ adapter.done
  /\ ObjectKeys(adapter.arg) = MetadataKeys
  /\ ObjectKeys(adapter.result) = {"vendor"}
  /\ IsPlainObject(adapter.arg.o["vendor"])
  /\ ObjectKeys(adapter.arg.o["vendor"]) = MetadataKeys
  /\ ObjectKeys(adapter.result.o["vendor"]) = {"tags"}

\* the wire metadata of the node adaptBackendNode was called with, the
\* display metadata it returned, and a value with its empty fields filtered
WireMetadata == adapter.arg.o["metadata"]
DisplayMetadata == adapter.result.o["metadata"]
EmptyFiltered(value) == IF IsPlainObject(value) THEN filterEmptyFields(value) ELSE value

\* C22: every wire metadata key outside the known set whose value is
\* non-empty appears in the display metadata adaptBackendNode returns, with
\* its empty-filtered value.
C22_PassThroughNonEmpty ==
  (adapter.fn = "adaptBackendNode" /\ adapter.done)
    => \A key \in ObjectKeys(WireMetadata) \ KnownKeys :
         ~isEmpty(WireMetadata.o[key])
           => /\ key \in ObjectKeys(DisplayMetadata)
              /\ DisplayMetadata.o[key] = EmptyFiltered(WireMetadata.o[key])

\* C22, amended: the keys of the display metadata outside the known set
\* are exactly the wire metadata keys outside it whose value is non-empty
\* and, when it is an object, still has a key after the filtering; each
\* holds its empty-filtered value.
C22_PassThroughSurviving ==
  (adapter.fn = "adaptBackendNode" /\ adapter.done)
    => /\ ObjectKeys(DisplayMetadata) \ KnownKeys
            = {key \in ObjectKeys(WireMetadata) \ KnownKeys : Survives(WireMetadata.o[key])}
       /\ \A key \in ObjectKeys(DisplayMetadata) \ KnownKeys :
            DisplayMetadata.o[key] = EmptyFiltered(WireMetadata.o[key])

\* a pass-through key holding an object with an empty and a non-empty field
\* came out with the non-empty field alone, beside a known key
C22_Witness ==
  /\ adapter.fn = "adaptBackendNode" /\ adapter.done
  /\ ObjectKeys(WireMetadata) = MetadataKeys
  /\ WireMetadata.o["vendor"] = Text
  /\ IsPlainObject(WireMetadata.o["tags"])
  /\ ObjectKeys(WireMetadata.o["tags"]) = MetadataKeys
  /\ "tags" \in ObjectKeys(DisplayMetadata)
  /\ ObjectKeys(DisplayMetadata.o["tags"]) = {"tags"}
  /\ DisplayMetadata.o["vendor"] = Text

\* C35: every known metadata key whose wire value is a string or a number
\* that is non-empty under isEmpty, the number 0 included, is in the display
\* metadata adaptBackendNode returns, with the same value.
C35_KnownKeysKept ==
  (adapter.fn = "adaptBackendNode" /\ adapter.done)
    => \A key \in ObjectKeys(WireMetadata) \cap KnownKeys :
         (WireMetadata.o[key].t \in {"string", "number"} /\ ~isEmpty(WireMetadata.o[key]))
           => /\ key \in ObjectKeys(DisplayMetadata)
              /\ DisplayMetadata.o[key] = WireMetadata.o[key]

\* C37: filterEmptyFields is idempotent: filtering the object it returned
\* gives that object again.
C37_Idempotent ==
  (adapter.fn = "filterEmptyFields" /\ adapter.done)
    => filterEmptyFields(adapter.result) = adapter.result

\* an object whose only field was empty was dropped beside an array holding
\* an empty element, which is kept by the first call and by a second one
C37_Witness ==
  /\ adapter.fn = "filterEmptyFields" /\ adapter.done
  /\ ObjectKeys(adapter.arg) = MetadataKeys
  /\ IsPlainObject(adapter.arg.o["vendor"])
  /\ adapter.result = Obj("tags" :> Arr(<<Null>>))
  /\ filterEmptyFields(adapter.result) = adapter.result

\* value is a reference to a place allocated by the call under way
Built(value) == value.t = "ref" /\ value.addr \notin DOMAIN adapter.heap

\* C38: adaptBackendNodes, adaptBackendEdges and filterEmptyFields leave
\* every object and array that existed when they were called as it was (the
\* mirror's arrays, its node and edge records, their metadata and what is
\* nested in it) and return an object they built; the records of a returned
\* array and the metadata of a returned node are built by the call too.
C38_InputsUnchanged ==
  [][/\ adapter'.arg = adapter.arg
     /\ \A a \in DOMAIN adapter.heap : adapter'.heap[a] = adapter.heap[a]
     /\ Built(adapter'.result)
     /\ LET result == At(adapter'.heap, adapter'.result)
        IN result.t = "array"
             => \A i \in DOMAIN result.a :
                  /\ Built(result.a[i])
                  /\ adapter.fn = "adaptBackendNodes"
                       => Built(At(adapter'.heap, result.a[i]).o["metadata"])]_vars

\* adaptBackendNodes returned a node without the blank vendor and with a
\* nested object reduced to its one non-empty field, while the mirror's
\* metadata still holds the blank vendor and the nested null
C38_Witness ==
  /\ adapter.fn = "adaptBackendNodes" /\ adapter.done
  /\ adapter.heap[1] = Arr(<<Ref(2)>>)
  /\ adapter.heap[3] = Obj("vendor" :> Str(<<" ">>) @@ "tags" :> Ref(4))
  /\ adapter.heap[4] = Obj("vendor" :> Null @@ "tags" :> Text)
  /\ LET node == At(adapter.heap, At(adapter.heap, adapter.result).a[1])
         metadata == At(adapter.heap, node.o["metadata"])
     IN /\ metadata.o["vendor"] = Undefined
        /\ metadata.o["tags"] # Ref(4)
        /\ At(adapter.heap, metadata.o["tags"]) = Obj("tags" :> Text)

\* C36: the display edge adaptBackendEdge returns has the id, source,
\* target, type, status and utilization of the wire edge, for a utilization
\* of 0 as for any other.
C36_EdgeFieldsPreserved ==
  (adapter.fn = "adaptBackendEdge" /\ adapter.done)
    => \A key \in {"id", "source", "target", "type", "status", "utilization"} :
         Get(adapter.result, key) = Get(adapter.arg, key)

\* no empty value in value, at any depth, arrays included
RECURSIVE NoEmptyDeep(_)
NoEmptyDeep(value) ==
  /\ ~isEmpty(value)
  /\ IsPlainObject(value) => \A key \in ObjectKeys(value) : NoEmptyDeep(value.o[key])
  /\ value.t = "array" => \A i \in ObjectKeys(value) : NoEmptyDeep(value.a[i])

\* C20: no field of the object an adapter returns holds an empty value, at
\* any depth.
C20_NoEmptyInOutput ==
  (adapter.fn \in AdapterFns /\ adapter.done)
    => \A key \in ObjectKeys(adapter.result) : NoEmptyDeep(adapter.result.o[key])

-----------------------------------------------------------------------------
(* Properties of the connection life cycle *)

\* transports manager k has opened, as long as none of them has opened
\* successfully (onopen resets the counter)
Opened(k) ==
  IF mgr[k].exists
  THEN 1 + mgr[k].reconnectAttempts - (IF mgr[k].timer THEN 1 ELSE 0)
  ELSE 0

RECURSIVE SumOpened(_)
SumOpened(K) ==
  IF K = {} THEN 0
  ELSE LET k == CHOOSE x \in K : TRUE IN Opened(k) + SumOpened(K \ {k})

Exhausted(k) ==
  /\ mgr[k].exists
  /\ mgr[k].sock = "closed"
  /\ ~mgr[k].timer
  /\ mgr[k].reconnectAttempts = maxReconnectAttempts

\* C5: when every open attempt fails, the engine and all its managers open
\* at most 1 + maxReconnectAttempts transports.
C5_BoundedReconnection == SumOpened(Managers) <= 1 + maxReconnectAttempts

\* C6: the engine reports isConnected = TRUE only while the transport of
\* its manager is open.
C6_ConnectedOnlyWhileOpen ==
  (mounted = "yes" /\ state.isConnected)
    => (wsManagerRef # 0 /\ mgr[wsManagerRef].sock = "open")

\* C7: a manager the hook has torn down has no reconnect timer pending and
\* no transport open or opening, and an unmounted hook has no resync timer.
C7_TeardownCancels ==
  /\ \A k \in Managers :
       mgr[k].tornDown => (~mgr[k].timer /\ mgr[k].sock \notin {"connecting", "open"})
  /\ mounted = "gone" => ~interval

\* C8: while the engine's manager is exhausted (closed at the attempt cap,
\* nothing scheduled), connectionError is a non-null string.
C8_ExhaustedExposesError ==
  (mounted = "yes" /\ wsManagerRef # 0 /\ Exhausted(wsManagerRef))
    => state.connectionError # NULL

\* no render is pending: the effects have run for the current state
Committed ==
  /\ mounted = "yes"
  /\ state.isConnected = rendered.isConnected
  /\ state.isConnecting = rendered.isConnecting

\* C18: a step that changes the mirror's nodes or edges is a delivery of a
\* graph_state or graph_update to an attached handler, and changes them as
\* the reducer says; every other step (connect, disconnect,
\* requestGraphState, ping, transport open, close and error, the
\* connection_established, ping and pong messages) leaves them as they are.
C18_OnlyReducerMutates ==
  [][(state'.nodes # state.nodes \/ state'.edges # state.edges)
       => /\ lastMsg'.type \in {"graph_state", "graph_update"}
          /\ \E k \in Managers :
               /\ mgr[k].handlers /\ mgr[k].sock = "open"
               /\ s2c[k] # <<>> /\ Head(s2c[k]) = lastMsg'
               /\ s2c'[k] = Tail(s2c[k])
          /\ state'.nodes = Reducer(state, lastMsg').nodes
          /\ state'.edges = Reducer(state, lastMsg').edges]_vars

\* the mirror still holds the graph of the first transport after a pong,
\* a disconnect and a connect that is opening a second transport
C18_Witness ==
  /\ state.nodes = SeedStore.nodes /\ state.edges = SeedStore.edges
  /\ lastMsg.type = "pong"
  /\ mgr[1].tornDown
  /\ wsManagerRef = 2 /\ mgr[2].sock = "connecting"

\* C25: isConnected and isConnecting are never both true.
C25_TriState == ~(state.isConnected /\ state.isConnecting)

\* the transport of manager k is open or opening
Live(k) == mgr[k].sock \in {"connecting", "open"}

\* C28: at most one transport is open or opening, and a manager the hook
\* does not hold in wsManagerRef has no reconnect pending, no transport
\* open or opening, and delivers nothing to the reducer.
C28_SingleTransport ==
  /\ Cardinality({k \in Managers : Live(k)}) <= 1
  /\ \A k \in Managers :
       (mgr[k].exists /\ k # wsManagerRef) => (~mgr[k].timer /\ ~Live(k))
  /\ \A k \in Managers :
       (mgr[k].handlers /\ mgr[k].sock = "open") => k = wsManagerRef

\* C29: once the render with the current sessionId has run its effects,
\* no transport of the engine that is open or opening is addressed by
\* another session id.
C29_CurrentSessionOnly ==
  (mounted = "yes" /\ rendered.sessionId = sessionId)
    => \A k \in Managers :
         (Live(k) /\ ~mgr[k].tornDown) => mgr[k].sessionId = sessionId

\* the guard of connect, as the closure of the last render evaluates it:
\* a call of the connect action opens a transport
ConnectStarts == wsManagerRef = 0 /\ ~rendered.isConnecting

\* reconnection is exhausted and nothing is left that would act by itself
Terminal ==
  /\ Committed
  /\ \E k \in Managers : Exhausted(k)
  /\ \A k \in Managers : mgr[k].exists => (mgr[k].sock = "closed" /\ ~mgr[k].timer)

\* C12: in the terminal state after exhausted reconnection, a call of the
\* connect action starts a new transport open attempt.
C12_RetriggerAfterExhaustion == Terminal => ConnectStarts

-----------------------------------------------------------------------------
(* Properties of reconnection *)

\* the transport of manager k closes in this step
Closes(k) == mgr[k].sock # "closed" /\ mgr'[k].sock = "closed"

\* attemptReconnect of manager k sets a timeout in this step
Schedules(k) == ~mgr[k].timer /\ mgr'[k].timer

C31_CounterBoundedAndReset ==
  [][\A k \in Managers :
       /\ mgr[k].reconnectAttempts \in 0..maxReconnectAttempts
       /\ mgr'[k].reconnectAttempts \in 0..maxReconnectAttempts
       /\ (mgr[k].sock # "open" /\ mgr'[k].sock = "open")
            => mgr'[k].reconnectAttempts = 0]_vars

\* the only manager reopened its transport (the greeting of the new
\* transport was the last message handled), lost it again and then used
\* all its attempts
C31_Witness ==
  /\ Exhausted(1)
  /\ mgr[1].handlers
  /\ ~mgr[2].exists
  /\ lastMsg.type = "connection_established"

\* C24: the delay before each successive reconnect attempt is at least
\* twice the delay before the previous one.
C24_ExponentialBackoff ==
  [][\A k \in Managers :
       (Schedules(k) /\ mgr[k].delay > 0) => mgr'[k].delay >= 2 * mgr[k].delay]_vars

\* C30: a transport close of a manager with reconnectAttempts below
\* maxReconnectAttempts adds one to reconnectAttempts and sets one timeout,
\* none being pending; a close at maxReconnectAttempts sets none and
\* leaves the counter as it is.
C30_OneAttemptPerClose ==
  [][\A k \in Managers :
       Closes(k)
         => IF mgr[k].reconnectAttempts < maxReconnectAttempts
            THEN /\ mgr'[k].reconnectAttempts = mgr[k].reconnectAttempts + 1
                 /\ ~mgr[k].timer
                 /\ mgr'[k].timer
            ELSE /\ mgr'[k].reconnectAttempts = mgr[k].reconnectAttempts
                 /\ ~mgr[k].timer
                 /\ ~mgr'[k].timer]_vars

\* the transport of the last attempt has closed: the counter is at the
\* cap and nothing is scheduled
C30_Witness == Exhausted(1) /\ mgr[1].delay = maxReconnectAttempts * reconnectDelay

-----------------------------------------------------------------------------
(* Properties of the control traffic *)

\* a tick of the interval callback puts a request_graph_state on a transport
ResyncSends == wsManagerRef # 0 /\ rendered.isConnected /\ CanSend(wsManagerRef)

\* C11: once the effects have run, while isConnected = TRUE the resync
\* interval is armed and its tick sends request_graph_state, and while
\* isConnected = FALSE no resync interval is armed.
C11_ResyncWhileConnected ==
  Committed =>
    /\ state.isConnected => (interval /\ ResyncSends)
    /\ ~state.isConnected => ~interval

\* the onmessage of manager k hands the ping at the head of its queue to
\* the handler of a mounted hook
PingHandled(k) ==
  /\ mounted = "yes"
  /\ mgr[k].sock = "open" /\ mgr[k].handlers
  /\ s2c[k] # <<>> /\ Head(s2c[k]).type = "ping"
  /\ s2c'[k] = Tail(s2c[k])
  /\ mgr' = mgr

\* C14: every ping the engine handles puts exactly one pong on the
\* transport the ping came in on, and leaves the engine state unchanged.
C14_PingAnsweredOnce ==
  [][\A k \in Managers :
       PingHandled(k) => /\ c2s' = Append(c2s, [from |-> k, type |-> "pong"])
                         /\ state' = state]_vars

\* C16: a frame that cannot be parsed is dropped (the engine state is
\* unchanged, the transport stays open, no reconnect is scheduled, the
\* handlers stay attached), and any frame that parses, before or after, is
\* applied by the reducer.
C16_GarbledDropped ==
  [][\A k \in Managers :
       (mgr[k].sock = "open" /\ s2c[k] # <<>> /\ s2c'[k] = Tail(s2c[k]))
         => IF Parses(Head(s2c[k]))
            THEN (mounted = "yes" /\ mgr[k].handlers)
                   => (state' = Reducer(state, Head(s2c[k])) /\ lastMsg' = Head(s2c[k]))
            ELSE /\ state' = state
                 /\ mgr'[k].sock = "open"
                 /\ mgr'[k].timer = mgr[k].timer
                 /\ mgr'[k].reconnectAttempts = mgr[k].reconnectAttempts
                 /\ mgr'[k].handlers = mgr[k].handlers]_vars

\* after a garbled frame was dropped, a 'created' delta of the same
\* transport has put a node into the mirror
C16_Witness ==
  /\ mgr[1].parseLog = "resumed"
  /\ mgr[1].sock = "open"
  /\ IsDelta(lastMsg, "created", "node")
  /\ Len(state.nodes) > prevSize.nodes

\* C27: the frames of a transport are applied in the order they arrived:
\* a step that changes what is in flight to manager k either adds frames
\* behind those waiting and applies none, or takes the frame that arrived
\* first and gives exactly that one to the reducer, or closes the transport.
C27_ArrivalOrder ==
  [][\A k \in Managers :
       s2c'[k] # s2c[k]
         => \/ /\ Len(s2c'[k]) > Len(s2c[k])
               /\ SubSeq(s2c'[k], 1, Len(s2c[k])) = s2c[k]
               /\ state' = state /\ lastMsg' = lastMsg
            \/ /\ mgr[k].sock = "open" /\ mgr'[k].sock = "open"
               /\ s2c'[k] = Tail(s2c[k])
               /\ IF Parses(Head(s2c[k])) /\ mgr[k].handlers /\ mounted = "yes"
                  THEN state' = Reducer(state, Head(s2c[k])) /\ lastMsg' = Head(s2c[k])
                  ELSE state' = state
            \/ /\ mgr'[k].sock # "open"
               /\ s2c'[k] = <<>>]_vars

\* both commits of the store reached the mirror, the creation of a node
\* and then its update, and the mirror holds the updated node
C27_Witness ==
  /\ commits = 2
  /\ s2c[1] = <<>>
  /\ IsDelta(lastMsg, "updated", "node")
  /\ state.nodes = <<TheData(lastMsg)>>
  /\ state.nodes = store.nodes

\* the manager in wsManagerRef has a transport that is present and OPEN
Sendable == wsManagerRef # 0 /\ CanSend(wsManagerRef)

\* C39: a control message goes out only through the manager in
\* wsManagerRef and only while its transport is present and OPEN; a pong
\* reply attempted without such a transport sends nothing and changes
\* neither the engine state nor any manager.
C39_SendNeedsOpenTransport ==
  [][/\ Len(c2s') > Len(c2s)
          => /\ Sendable
             /\ \E type \in {"request_graph_state", "ping", "pong"} :
                  c2s' = Append(c2s, [from |-> wsManagerRef, type |-> type])
     /\ \A k \in Managers :
          (/\ ~Sendable
           /\ mounted = "yes" /\ mgr[k].sock = "open" /\ mgr[k].handlers
           /\ s2c[k] # <<>> /\ Head(s2c[k]).type = "ping"
           /\ s2c'[k] = Tail(s2c[k]))
            => (c2s' = c2s /\ state' = state /\ mgr' = mgr
                  /\ wsManagerRef' = wsManagerRef)]_vars

\* a ping was handled by an engine whose wsManagerRef is null (its first
\* open failed, the abandoned manager delivered the ping): no pong left
C39_Witness ==
  /\ lastMsg.type = "ping"
  /\ wsManagerRef = 0
  /\ c2s = <<>>
  /\ mgr[1].sock = "open" /\ mgr[1].handlers

\* a ping of the engine is on its way to the server
PingSent == \E i \in 1..Len(c2s) : c2s[i].type = "ping"

\* the engine's manager has left its open transport or is about to reopen
Reconnecting ==
  wsManagerRef # 0 /\ (mgr[wsManagerRef].sock # "open" \/ mgr[wsManagerRef].timer)

\* C15: after the engine has sent a ping, a pong reaches it or it starts
\* to reconnect.
C15_SilenceDrivesReconnect == PingSent ~> (lastMsg.type = "pong" \/ Reconnecting)

-----------------------------------------------------------------------------
(* Properties of the resync loop *)

InSync == state.nodes = store.nodes /\ state.edges = store.edges

\* C10: with the transport open and every request_graph_state answered,
\* once the store has stopped changing the mirror's nodes and edges become
\* equal to the store's and stay so.
C10_ResyncHeals == <>[]InSync

\* a snapshot brought a mirror of another size back to a non-empty store
C10_Witness ==
  /\ commits = MaxChanges
  /\ lastMsg.type = "graph_state"
  /\ InSync
  /\ store.nodes # <<>>
  /\ prevSize.nodes # Len(state.nodes)

====
